---- MODULE Spec2Model ----
(***************************************************************************)
(* Model of rlone_copy.py: upload runs (scan, select, upload with drive    *)
(* fallback) and cleanup sweeps racing over the persisted wait_cleanup     *)
(* ledger and its file lock.                                               *)
(*                                                                         *)
(* Paths are sequences of path components; the first component "/" marks  *)
(* an absolute path.  Time is counted in whole days.                       *)
(***************************************************************************)
EXTENDS Integers, Sequences, FiniteSets, TLC

\* ---------------------------------------------------------------- bounds
\* Last day the clock reaches.
MaxTime == 2
\* Largest folder size (GB) drawn for the selector's inputs.
MaxSize == 2
\* Largest budget (GB) drawn for the selector's inputs.
MaxBudget == 3

\* ---------------------------------------------------------------- config
\* config["cleanup_offset_days"]
cleanup_offset_days == 1
\* config["upload_size_gb"]
upload_size_gb == 2
\* config["rclone_drives"]
rclone_drives == <<"d1", "d2">>
\* config["mapping_rules"]: an absolute root and a root given relative to
\* the working directory.
mapping_rules ==
  << [base_path |-> <<"/", "m">>, remote_suffix |-> "movies"],
     [base_path |-> <<"r">>, remote_suffix |-> "shows"] >>

\* ------------------------------------------------------------ file system
CWD == <<"/", "cwd">>
FolderA == <<"/", "m", "a">>
FolderB == <<"/", "m", "b">>
FolderC == <<"/", "cwd", "r", "c">>
Folders == {FolderA, FolderB, FolderC}
Roots == {<<"/", "m">>, <<"/", "cwd", "r">>}
\* Folders in the order of their creation time.
CreationOrder == <<FolderA, FolderB, FolderC>>

Uploaders == {"u1", "u2"}
Sweepers == {"s1"}
Procs == Uploaders \cup Sweepers
NoProc == "none"

Time == 0..MaxTime

VARIABLES
  ledger,       \* content of wait_cleanup.json: path -> timestamp string
  corrupt,      \* wait_cleanup.json exists but holds no complete JSON text
  lock,         \* holder of wait_cleanup.json.lock, or NoProc
  local_fs,     \* directories that exist locally (absolute paths)
  now,          \* datetime.now(), in days
  pc,           \* position of every process
  up,           \* locals of every upload run
  sw,           \* locals of every sweep
  exit_status,  \* exit status of every process that ended
  lastWriter,   \* process whose write the ledger file holds
  foreign,      \* another process saved the ledger since this one loaded it
  sel           \* input and output of one select_folders_for_upload call

vars == <<ledger, corrupt, lock, local_fs, now, pc, up, sw, exit_status,
          lastWriter, foreign, sel>>

\* ------------------------------------------------------------ dictionaries
EmptyDict == [x \in {} |-> 0]
Put(d, k, v) == [x \in (DOMAIN d) \cup {k} |-> IF x = k THEN v ELSE d[x]]
Del(d, k) == [x \in (DOMAIN d) \ {k} |-> d[x]]

\* ------------------------------------------------------------- timestamps
\* str(datetime.now()): the ISO text of a time.
str_datetime(t) == <<"iso", t>>
\* datetime.fromisoformat(timestamp)
fromisoformat(s) == s[2]

\* ------------------------------------------------------------------ paths
\* str.startswith on paths
startswith(folder, base_path) ==
  /\ Len(base_path) <= Len(folder)
  /\ SubSeq(folder, 1, Len(base_path)) = base_path

\* os.path.abspath
abspath(path) == IF Len(path) > 0 /\ path[1] = "/" THEN path ELSE CWD \o path

\* os.path.join(base_path, folder)
path_join(base_path, name) == Append(base_path, name)

\* os.path.getctime
getctime(path) == CHOOSE i \in 1..Len(CreationOrder) : CreationOrder[i] = path

\* The first mapping rule whose base_path prefixes the folder (the inner
\* for loop with its break); 0 when no rule matches.
MatchRule(folder) ==
  LET hits == {i \in 1..Len(mapping_rules) :
                  startswith(folder, mapping_rules[i].base_path)}
  IN IF hits = {} THEN 0 ELSE CHOOSE i \in hits : \A j \in hits : i <= j

\* folder.replace(base_path, f"{drive}:{remote_suffix}")
Destination(folder, rule, drive) ==
  <<drive, mapping_rules[rule].remote_suffix>>
    \o SubSeq(folder, Len(mapping_rules[rule].base_path) + 1, Len(folder))

\* ------------------------------------------------------------ folder scan
\* os.path.exists(base_path)
path_exists(path, fs) == abspath(path) \in fs

\* [os.path.join(base_path, folder) for folder in os.listdir(base_path)
\*    if os.path.isdir(...)]
list_folders(base_path, fs) ==
  {path_join(base_path, f[Len(f)]) : f \in
     {g \in fs : /\ Len(g) = Len(abspath(base_path)) + 1
                 /\ startswith(g, abspath(base_path))}}

\* folder_list.sort(key=os.path.getctime)
RECURSIVE SortByCtime(_)
SortByCtime(S) ==
  IF S = {} THEN <<>>
  ELSE LET first == CHOOSE f \in S :
                      \A g \in S : getctime(abspath(f)) <= getctime(abspath(g))
       IN <<first>> \o SortByCtime(S \ {first})

\* get_folder_size(folder), in GB
get_folder_size(folder) == 1

\* Faulty variant: the ledger keys are not consulted.
IsIgnoredNever(abs_path, ignored_folders) == FALSE

\* if abs_path in ignored_folders: continue
IsIgnored(abs_path, ignored_folders) == abs_path \in ignored_folders

\* The loop over one rule's sorted folder_list.
RECURSIVE ScanList(_, _)
ScanList(folder_list, ignored_folders) ==
  IF folder_list = <<>> THEN <<>>
  ELSE LET abs_path == abspath(Head(folder_list))
           rest == ScanList(Tail(folder_list), ignored_folders)
       IN IF IsIgnored(abs_path, ignored_folders)
          THEN rest
          ELSE <<[path |-> abs_path, size |-> get_folder_size(abs_path)]>> \o rest

\* The loop over mapping_rules.keys(), from rule i on.
RECURSIVE ScanRules(_, _, _)
ScanRules(i, ignored_folders, fs) ==
  IF i > Len(mapping_rules) THEN <<>>
  ELSE LET base_path == mapping_rules[i].base_path
           here == IF path_exists(base_path, fs)
                   THEN ScanList(SortByCtime(list_folders(base_path, fs)),
                                 ignored_folders)
                   ELSE <<>>
       IN here \o ScanRules(i + 1, ignored_folders, fs)

\* scan_folders_by_mapping, given the ledger keys it loaded
scan_folders_by_mapping(ignored_folders, fs) == ScanRules(1, ignored_folders, fs)

\* --------------------------------------------------------- quota selector
\* Faulty variant: < for <=.
FitsStrictly(total_size, size, max_size) == total_size + size < max_size

\* if total_size + size <= max_size
Fits(total_size, size, max_size) == total_size + size <= max_size

\* The for loop of select_folders_for_upload with its break.
RECURSIVE SelectLoop(_, _, _)
SelectLoop(folders, total_size, max_size) ==
  IF folders = <<>> THEN <<>>
  ELSE IF Fits(total_size, Head(folders).size, max_size)
       THEN <<Head(folders).path>>
              \o SelectLoop(Tail(folders), total_size + Head(folders).size, max_size)
       ELSE <<>>

select_folders_for_upload(folders, max_size) == SelectLoop(folders, 0, max_size)

\* ------------------------------------------------------------------ state
UpInit ==
  [ignored_folders |-> {}, folders |-> <<>>, selected_folders |-> <<>>,
   wait_cleanup_folders |-> EmptyDict, i |-> 1, current_drive_index |-> 0,
   stop_all |-> FALSE, attempts |-> <<>>, recorded |-> {}]

SwInit ==
  [uploaded_folders |-> EmptyDict, items |-> EmptyDict, todo |-> {},
   threshold_time |-> 0, folder |-> <<>>, verified_ok |-> {},
   verified_bad |-> {}, deleted |-> {}, waited |-> FALSE]

SelIdle == [folders |-> <<>>, max_size |-> 0, selected |-> <<>>, called |-> FALSE]

\* Where a process stands before its first step; a process that is not
\* launched stays "idle".
Start(p, launched) ==
  IF p \notin launched THEN "idle"
  ELSE IF p \in Uploaders THEN "scan" ELSE "s_acquire"

\* The processes in `launched` are started on day `day`.  The ledger left
\* by earlier runs holds any set of folders, recorded on day 0.
InitWith(launched, day) ==
  /\ ledger \in {[f \in S |-> str_datetime(0)] : S \in SUBSET Folders}
  /\ corrupt = FALSE
  /\ lock = NoProc
  /\ local_fs = Roots \cup Folders
  /\ now = day
  /\ pc = [p \in Procs |-> Start(p, launched)]
  /\ up = [p \in Uploaders |-> UpInit]
  /\ sw = [p \in Sweepers |-> SwInit]
  /\ exit_status = [p \in Procs |-> -1]
  /\ lastWriter = NoProc
  /\ foreign = [p \in Procs |-> FALSE]
  /\ sel = SelIdle

\* One upload run and one sweep, launched on day 0.
Init == InitWith({"u1", "s1"}, 0)

\* Two upload runs and one sweep, launched on the last day: the entries of
\* day 0 are past the grace period.
InitRace == InitWith(Procs, MaxTime)

\* ------------------------------------------------------------- the clock
Tick ==
  /\ now < MaxTime
  /\ now' = now + 1
  /\ UNCHANGED <<ledger, corrupt, lock, local_fs, pc, up, sw, exit_status,
                 lastWriter, foreign, sel>>

\* -------------------------------------------------------------- file lock
\* FileLock.acquire: granted only when no process holds the lock.
Acquire(p) == lock = NoProc /\ lock' = p
\* FileLock.release
Release(p) == lock' = IF lock = p THEN NoProc ELSE lock

\* json.dump to wait_cleanup.json: every other process that loaded the
\* ledger now holds a stale copy.
SaveLedger(p, data) ==
  /\ ledger' = data
  /\ corrupt' = FALSE
  /\ lastWriter' = p
  /\ foreign' = [q \in Procs |-> IF q = p THEN foreign[q] ELSE TRUE]

\* ------------------------------------------------------------- upload run
\* An exception that leaves main(): the interpreter exits with status 1.
Traceback(p) ==
  /\ pc' = [pc EXCEPT ![p] = "u_error"]
  /\ exit_status' = [exit_status EXCEPT ![p] = 1]

\* main(): scan_folders_by_mapping (its load_wait_cleanup reads the ledger
\* keys inside "with lock:", then the roots are listed) and
\* select_folders_for_upload.
U_Scan(p) ==
  /\ pc[p] = "scan"
  /\ lock = NoProc
  /\ IF corrupt
     THEN Traceback(p) /\ UNCHANGED up
     ELSE /\ LET folders == scan_folders_by_mapping(DOMAIN ledger, local_fs) IN
               up' = [up EXCEPT
                 ![p].ignored_folders = DOMAIN ledger,
                 ![p].folders = folders,
                 ![p].selected_folders =
                    select_folders_for_upload(folders, upload_size_gb)]
          /\ pc' = [pc EXCEPT ![p] = "load"]
          /\ UNCHANGED exit_status
  /\ UNCHANGED <<ledger, corrupt, lock, local_fs, now, sw, lastWriter,
                 foreign, sel>>

\* Faulty variant: the index wraps round to the first drive.
NextDriveIndexWrap(i) == (i + 1) % Len(rclone_drives)

\* current_drive_index += 1
NextDriveIndex(i) == i + 1

\* Faulty variant: > for >=.
ExhaustedLate(i) == i > Len(rclone_drives)

\* if current_drive_index >= len(drives)
Exhausted(i) == i >= Len(rclone_drives)

\* "for folder in selected_folders", from position i on: a folder that no
\* mapping rule matches is passed over without a copy; the result is the
\* position of the next folder to copy, or one past the end.
RECURSIVE NextToCopy(_, _)
NextToCopy(selected_folders, i) ==
  IF i > Len(selected_folders) THEN i
  ELSE IF MatchRule(selected_folders[i]) # 0 THEN i
  ELSE NextToCopy(selected_folders, i + 1)

\* The exit status main() ends with after upload_folders returned.
UploadExitStatus(stop_all) == 0

\* The for loop goes on at position i: to the next copy, or out of
\* upload_folders and main() when no folder is left.
Continue(p, u, i) ==
  LET j == NextToCopy(u.selected_folders, i) IN
  /\ up' = [up EXCEPT ![p] = [u EXCEPT !.i = j]]
  /\ IF j > Len(u.selected_folders)
     THEN /\ pc' = [pc EXCEPT ![p] = "u_done"]
          /\ exit_status' = [exit_status EXCEPT ![p] = UploadExitStatus(u.stop_all)]
     ELSE IF u.current_drive_index >= Len(rclone_drives)
     THEN Traceback(p)
     ELSE /\ pc' = [pc EXCEPT ![p] = "copy"]
          /\ UNCHANGED exit_status

\* upload_folders: wait_cleanup_folders = load_wait_cleanup(), read inside
\* "with lock:" and released on return; then the for loop starts.
U_Load(p) ==
  /\ pc[p] = "load"
  /\ lock = NoProc
  /\ IF corrupt
     THEN Traceback(p) /\ UNCHANGED <<up, foreign>>
     ELSE /\ Continue(p, [up[p] EXCEPT !.wait_cleanup_folders = ledger,
                                       !.current_drive_index = 0,
                                       !.stop_all = FALSE], 1)
          /\ foreign' = [foreign EXCEPT ![p] = FALSE]
  /\ UNCHANGED <<ledger, corrupt, lock, local_fs, now, sw, lastWriter, sel>>

\* One "rclone copy" of the current folder to the current drive, and the
\* branch on its return code.
U_Copy(p) ==
  /\ pc[p] = "copy"
  /\ \E returncode \in {0, 1} :
       LET u == up[p]
           folder == u.selected_folders[u.i]
           tried == Append(u.attempts,
                      [folder |-> folder, drive |-> u.current_drive_index,
                       ok |-> returncode = 0])
       IN IF returncode = 0
          THEN /\ up' = [up EXCEPT
                    ![p].attempts = tried,
                    ![p].wait_cleanup_folders =
                       Put(u.wait_cleanup_folders, abspath(folder), str_datetime(now))]
               /\ pc' = [pc EXCEPT ![p] = "write_lock"]
               /\ UNCHANGED exit_status
          ELSE LET next == NextDriveIndex(u.current_drive_index) IN
               IF Exhausted(next)
               THEN /\ up' = [up EXCEPT ![p].attempts = tried,
                                        ![p].current_drive_index = next,
                                        ![p].stop_all = TRUE]
                    /\ pc' = [pc EXCEPT ![p] = "u_done"]
                    /\ exit_status' = [exit_status EXCEPT
                                         ![p] = UploadExitStatus(TRUE)]
               ELSE /\ up' = [up EXCEPT ![p].attempts = tried,
                                        ![p].current_drive_index = next]
                    /\ UNCHANGED <<pc, exit_status>>
  /\ UNCHANGED <<ledger, corrupt, lock, local_fs, now, sw, lastWriter,
                 foreign, sel>>

\* write_wait_cleanup: "with lock:" is entered.
U_WriteAcquire(p) ==
  /\ pc[p] = "write_lock"
  /\ Acquire(p)
  /\ pc' = [pc EXCEPT ![p] = "write"]
  /\ UNCHANGED <<ledger, corrupt, local_fs, now, up, sw, exit_status,
                 lastWriter, foreign, sel>>

\* Faulty variant: every folder starts again at the first drive.
U_WriteResetDrive(p) ==
  /\ pc[p] = "write"
  /\ SaveLedger(p, up[p].wait_cleanup_folders)
  /\ Release(p)
  /\ Continue(p, [up[p] EXCEPT
                    !.recorded = @ \cup {up[p].selected_folders[up[p].i]},
                    !.current_drive_index = 0],
              up[p].i + 1)
  /\ UNCHANGED <<local_fs, now, sw, sel>>

\* Faulty variant: the dictionary is not dumped after the folder; the loop
\* goes on with the next folder.
U_WriteLater(p) ==
  /\ pc[p] = "write"
  /\ Release(p)
  /\ Continue(p, up[p], up[p].i + 1)
  /\ UNCHANGED <<ledger, corrupt, lastWriter, foreign, local_fs, now, sw, sel>>

\* The in-memory dictionary is dumped to the file and the lock released; the
\* for loop goes on with the next folder.
U_Write(p) ==
  /\ pc[p] = "write"
  /\ SaveLedger(p, up[p].wait_cleanup_folders)
  /\ Release(p)
  /\ Continue(p, [up[p] EXCEPT
                    !.recorded = @ \cup {up[p].selected_folders[up[p].i]}],
              up[p].i + 1)
  /\ UNCHANGED <<local_fs, now, sw, sel>>

UploadStep(p) ==
  \/ U_Scan(p)
  \/ U_Load(p)
  \/ U_Copy(p)
  \/ U_WriteAcquire(p)
  \/ U_Write(p)

\* ---------------------------------------------------------- cleanup sweep
\* Faulty variant: Timeout ends the sweep.
AfterTimeoutAbort == "s_error"

\* Where the sweep stands after "except Timeout: ... continue".
AfterTimeout == "s_acquire"

\* lock.acquire(timeout=1) raises Timeout: the lock is held by another process.
S_Timeout(p) ==
  /\ pc[p] = "s_acquire"
  /\ lock # NoProc
  /\ sw' = [sw EXCEPT ![p].waited = TRUE]
  /\ pc' = [pc EXCEPT ![p] = AfterTimeout]
  /\ UNCHANGED <<ledger, corrupt, lock, local_fs, now, up, exit_status,
                 lastWriter, foreign, sel>>

\* lock.acquire(timeout=1) succeeds; uploaded_folders = json.load(f);
\* threshold_time = now - offset; the list copy of the items is taken for
\* the for loop.
S_Acquire(p) ==
  /\ pc[p] = "s_acquire"
  /\ Acquire(p)
  /\ IF corrupt
     THEN /\ pc' = [pc EXCEPT ![p] = "s_finally_exc"]
          /\ UNCHANGED <<sw, foreign>>
     ELSE /\ sw' = [sw EXCEPT ![p].uploaded_folders = ledger,
                              ![p].items = ledger,
                              ![p].todo = DOMAIN ledger,
                              ![p].threshold_time = now - cleanup_offset_days]
          /\ foreign' = [foreign EXCEPT ![p] = FALSE]
          /\ pc' = [pc EXCEPT ![p] = "s_next"]
  /\ UNCHANGED <<ledger, corrupt, local_fs, now, up, exit_status,
                 lastWriter, sel>>

\* Faulty variant: the comparison turned round.
IsExpiredInverted(upload_time, threshold_time) == upload_time > threshold_time

\* Faulty variant: <= for <.
IsExpiredAtGrace(upload_time, threshold_time) == upload_time <= threshold_time

\* if upload_time < threshold_time
IsExpired(upload_time, threshold_time) == upload_time < threshold_time

\* Faulty variant: the output of the check is not looked at.
is_folder_uploaded_always(stdout_has_error) == TRUE

\* is_folder_uploaded: "ERROR" not in result.stdout
is_folder_uploaded(stdout_has_error) == ~stdout_has_error

\* Faulty variant: the mapping rules are not consulted.
ActionableAnyRule(s) ==
  {folder \in s.todo :
     IsExpired(fromisoformat(s.items[folder]), s.threshold_time)}

\* The entries of the list copy the for loop acts on: expired, and matched
\* by a mapping rule.  Every other entry is passed over untouched.
Actionable(s) ==
  {folder \in s.todo :
     /\ IsExpired(fromisoformat(s.items[folder]), s.threshold_time)
     /\ MatchRule(folder) # 0}

\* Faulty variant: the record is removed only inside the "if".
AfterCheckKeepRecord(uploaded) == IF uploaded THEN "s_rm" ELSE "s_next"

\* What follows the rclone check of an entry: the local delete when it
\* reported the folder uploaded; the record is removed in either case.
AfterCheck(uploaded) == IF uploaded THEN "s_rm" ELSE "s_del"

\* "for folder, timestamp in list(...)": the loop reaches the next entry it
\* acts on and runs the rclone check on it, or ends.
S_Next(p) ==
  /\ pc[p] = "s_next"
  /\ IF Actionable(sw[p]) = {}
     THEN /\ pc' = [pc EXCEPT ![p] = "s_finally"]
          /\ sw' = [sw EXCEPT ![p].todo = {}]
     ELSE \E folder \in Actionable(sw[p]), stdout_has_error \in BOOLEAN :
            /\ sw' = [sw EXCEPT
                 ![p].folder = folder,
                 ![p].todo = @ \ {folder},
                 ![p].verified_ok =
                    IF stdout_has_error THEN @ ELSE @ \cup {folder},
                 ![p].verified_bad =
                    IF stdout_has_error THEN @ \cup {folder} ELSE @]
            /\ pc' = [pc EXCEPT ![p] =
                        AfterCheck(is_folder_uploaded(stdout_has_error))]
  /\ UNCHANGED <<ledger, corrupt, lock, local_fs, now, up, exit_status,
                 lastWriter, foreign, sel>>

\* subprocess.run(["rm", "-rf", folder])
S_Rm(p) ==
  /\ pc[p] = "s_rm"
  /\ local_fs' = local_fs \ {sw[p].folder}
  /\ sw' = [sw EXCEPT ![p].deleted = @ \cup {sw[p].folder}]
  /\ pc' = [pc EXCEPT ![p] = "s_del"]
  /\ UNCHANGED <<ledger, corrupt, lock, now, up, exit_status, lastWriter,
                 foreign, sel>>

\* Faulty variant: the record is removed from the dictionary only; the file
\* is not written after the entry.
S_DelNoSave(p) ==
  /\ pc[p] = "s_del"
  /\ sw' = [sw EXCEPT ![p].uploaded_folders = Del(sw[p].uploaded_folders, sw[p].folder)]
  /\ pc' = [pc EXCEPT ![p] = "s_next"]
  /\ UNCHANGED <<ledger, corrupt, lastWriter, foreign, lock, local_fs, now, up,
                 exit_status, sel>>

\* del uploaded_folders[folder]; json.dump(uploaded_folders, f); break
S_DelSave(p) ==
  /\ pc[p] = "s_del"
  /\ LET left == Del(sw[p].uploaded_folders, sw[p].folder) IN
       /\ sw' = [sw EXCEPT ![p].uploaded_folders = left]
       /\ SaveLedger(p, left)
  /\ pc' = [pc EXCEPT ![p] = "s_next"]
  /\ UNCHANGED <<lock, local_fs, now, up, exit_status, sel>>

\* open(WAIT_CLEANUP_LOG, "w") raises OSError inside the try block.
S_Raise(p) ==
  /\ pc[p] = "s_del"
  /\ pc' = [pc EXCEPT ![p] = "s_finally_exc"]
  /\ UNCHANGED <<ledger, corrupt, lock, local_fs, now, up, sw, exit_status,
                 lastWriter, foreign, sel>>

\* finally: lock.release(); then the sweep returns, or the exception goes on.
S_Release(p) ==
  /\ pc[p] \in {"s_finally", "s_finally_exc"}
  /\ Release(p)
  /\ pc' = [pc EXCEPT ![p] = IF pc[p] = "s_finally" THEN "s_done" ELSE "s_error"]
  /\ exit_status' = [exit_status EXCEPT ![p] = IF pc[p] = "s_finally" THEN 0 ELSE 1]
  /\ UNCHANGED <<ledger, corrupt, local_fs, now, up, sw, lastWriter, foreign, sel>>

SweepStep(p) ==
  \/ S_Timeout(p)
  \/ S_Acquire(p)
  \/ S_Next(p)
  \/ S_Rm(p)
  \/ S_DelSave(p)
  \/ S_Raise(p)
  \/ S_Release(p)

\* ---------------------------------------------------------------- crashes
Ended == {"idle", "u_done", "u_error", "s_done", "s_error", "crashed"}

\* The process is killed; the operating system drops its file lock.
Crash(p) ==
  /\ pc[p] \notin Ended
  /\ pc' = [pc EXCEPT ![p] = "crashed"]
  /\ Release(p)
  /\ UNCHANGED <<ledger, corrupt, local_fs, now, up, sw, exit_status,
                 lastWriter, foreign, sel>>

\* The process is killed after open(WAIT_CLEANUP_LOG, "w") truncated the file
\* and before json.dump's text reached it.
TornWrite(p) ==
  /\ pc[p] \in {"write", "s_del"}
  /\ ledger' = EmptyDict
  /\ corrupt' = TRUE
  /\ lastWriter' = p
  /\ foreign' = [q \in Procs |-> IF q = p THEN foreign[q] ELSE TRUE]
  /\ pc' = [pc EXCEPT ![p] = "crashed"]
  /\ Release(p)
  /\ UNCHANGED <<local_fs, now, up, sw, exit_status, sel>>

\* --------------------------------------------------------- specifications
Next ==
  \/ Tick
  \/ \E p \in Uploaders : UploadStep(p)
  \/ \E p \in Sweepers : SweepStep(p)

Spec == Init /\ [][Next]_vars

NextCrash ==
  \/ Next
  \/ \E p \in Procs : Crash(p)
  \/ \E p \in Procs : TornWrite(p)

SpecCrash == Init /\ [][NextCrash]_vars

NextRace ==
  \/ \E p \in Uploaders : UploadStep(p)
  \/ \E p \in Sweepers : SweepStep(p)

SpecRace == InitRace /\ [][NextRace]_vars

\* Two upload runs launched on the day before the last, and the clock.
InitTwoRuns == InitWith(Uploaders, MaxTime - 1)

NextTwoRuns ==
  \/ Tick
  \/ \E p \in Uploaders : UploadStep(p)

SpecTwoRuns == InitTwoRuns /\ [][NextTwoRuns]_vars

\* A process that can take a step eventually takes one: copies, checks and
\* lock holders all come to an end.
SpecFair ==
  /\ Spec
  /\ \A p \in Uploaders : WF_vars(UploadStep(p))
  /\ \A p \in Sweepers : WF_vars(SweepStep(p))

\* ----------------------------------------------- the selector on its own
\* Sequences of distinct candidate folders with their sizes.
Candidates ==
  LET Sized == [path : Folders, size : 0..MaxSize]
      Seqs == UNION {[1..n -> Sized] : n \in 0..Cardinality(Folders)}
  IN {c \in Seqs : \A i, j \in 1..Len(c) : c[i].path = c[j].path => i = j}

SelInit ==
  /\ ledger = EmptyDict
  /\ corrupt = FALSE
  /\ lock = NoProc
  /\ local_fs = Roots \cup Folders
  /\ now = 0
  /\ pc = [p \in Procs |-> "idle"]
  /\ up = [p \in Uploaders |-> UpInit]
  /\ sw = [p \in Sweepers |-> SwInit]
  /\ exit_status = [p \in Procs |-> -1]
  /\ lastWriter = NoProc
  /\ foreign = [p \in Procs |-> FALSE]
  /\ sel \in [folders : Candidates, max_size : 0..MaxBudget,
              selected : {<<>>}, called : {FALSE}]

\* selected_folders = select_folders_for_upload(folders, max_upload_size)
SelCall ==
  /\ ~sel.called
  /\ sel' = [sel EXCEPT !.selected = select_folders_for_upload(sel.folders, sel.max_size),
                        !.called = TRUE]
  /\ UNCHANGED <<ledger, corrupt, lock, local_fs, now, pc, up, sw, exit_status,
                 lastWriter, foreign>>

SpecSelect == SelInit /\ [][SelCall]_vars

\* ================================================================ claims

\* The entries a sweep found past the grace period when it read the ledger.
PastGrace(s) ==
  {f \in DOMAIN s.items : fromisoformat(s.items[f]) < s.threshold_time}

\* The entries a sweep found younger than the grace period.
Younger(s) ==
  {f \in DOMAIN s.items : fromisoformat(s.items[f]) > s.threshold_time}

Matched(S) == {f \in S : MatchRule(f) # 0}

SweepInProgress(p) == pc[p] \in {"s_next", "s_rm", "s_del", "s_finally", "s_finally_exc"}

\* C1: a sweep deletes a local folder if and only if the folder had, in that
\* sweep, a ledger entry past the grace period that matched a mapping rule
\* and the check of it reported full presence: nothing is deleted that was
\* not checked in the same sweep, nothing is deleted on a mismatch, and what
\* was checked present is deleted.
C1_DeleteIffVerified ==
  \A p \in Sweepers :
    LET s == sw[p] IN
    /\ s.deleted \subseteq s.verified_ok
    /\ s.deleted \cap s.verified_bad = {}
    /\ (s.verified_ok \cup s.verified_bad) \subseteq Matched(PastGrace(s))
    /\ (pc[p] # "s_rm" => s.verified_ok \subseteq s.deleted)
    /\ (pc[p] \in {"s_finally", "s_done"} =>
          Matched(PastGrace(s)) \subseteq (s.verified_ok \cup s.verified_bad))

C1_Witness ==
  \E p \in Sweepers :
    /\ pc[p] = "s_done"
    /\ sw[p].deleted # {}
    /\ sw[p].verified_bad # {}
    /\ sw[p].verified_bad \subseteq local_fs

\* C2: an entry younger than the grace period when the sweep read the ledger
\* is never checked and never deleted by that sweep, and while the sweep
\* runs the persisted ledger holds it with its timestamp unchanged.
C2_YoungUntouched ==
  \A p \in Sweepers :
    \A f \in Younger(sw[p]) :
      /\ f \notin sw[p].verified_ok \cup sw[p].verified_bad
      /\ f \notin sw[p].deleted
      /\ (SweepInProgress(p) =>
            f \in DOMAIN ledger /\ ledger[f] = sw[p].items[f])

C2_Witness ==
  \E p \in Sweepers :
    /\ pc[p] = "s_finally"
    /\ Younger(sw[p]) # {}
    /\ sw[p].uploaded_folders # sw[p].items

\* C3 as stated: when a sweep that ran to completion ends, the persisted
\* ledger holds no entry that was past the grace period when the sweep read
\* it.
C3_AllExpiredRetired ==
  \A p \in Sweepers :
    pc[p] = "s_finally" => PastGrace(sw[p]) \cap DOMAIN ledger = {}

\* C3 as amended: when a sweep that ran to completion ends, the persisted
\* ledger holds no entry that was past the grace period when the sweep read
\* it and matches a mapping rule, whatever the check reported for it.
C3_MatchedExpiredRetired ==
  \A p \in Sweepers :
    pc[p] = "s_finally" => Matched(PastGrace(sw[p])) \cap DOMAIN ledger = {}

C3_Witness ==
  \E p \in Sweepers :
    /\ pc[p] = "s_finally"
    /\ sw[p].verified_ok # {}
    /\ sw[p].verified_bad # {}
    /\ (sw[p].verified_ok \cup sw[p].verified_bad) \cap DOMAIN ledger = {}

\* C4: every save of the ledger is based on a load that no other process's
\* save has followed: when a process is about to dump its dictionary to the
\* file, no other process has saved the ledger since this process loaded it.
C4_AtomicReadModifyWrite ==
  \A p \in Procs : pc[p] \in {"write", "s_del"} => ~foreign[p]

\* C5: once write_wait_cleanup has returned for a folder of an upload run,
\* a crash of that run at any later point leaves the folder's entry in the
\* persisted ledger (as long as the file holds what this run left in it).
C5_CrashKeepsRecorded ==
  \A p \in Uploaders :
    (pc[p] = "crashed" /\ lastWriter = p) =>
       \A f \in up[p].recorded : ~corrupt /\ f \in DOMAIN ledger

\* C6: in an upload run the drive index never decreases and changes only by
\* +1, on a failed copy; every copy attempt uses the current index, which is
\* in 0..len(drives)-1; so no copy is attempted once the index has reached
\* len(drives).
C6_DriveIndexMonotone ==
  [][\A p \in Uploaders :
       LET u == up[p]
           v == up'[p]
           n == Len(v.attempts)
       IN /\ v.current_drive_index \in {u.current_drive_index,
                                        u.current_drive_index + 1}
          /\ (v.current_drive_index # u.current_drive_index =>
                /\ n = Len(u.attempts) + 1
                /\ ~v.attempts[n].ok)
          /\ (v.attempts # u.attempts =>
                /\ n = Len(u.attempts) + 1
                /\ SubSeq(v.attempts, 1, n - 1) = u.attempts
                /\ u.current_drive_index \in 0..(Len(rclone_drives) - 1)
                /\ v.attempts[n].drive = u.current_drive_index)
    ]_vars

\* A run that recorded a folder on a later drive and then ran out of drives,
\* with a selected folder it never reached.
C6_Witness ==
  \E p \in Uploaders :
    /\ up[p].current_drive_index = Len(rclone_drives)
    /\ up[p].recorded # {}
    /\ Len(up[p].attempts) > Len(rclone_drives)
    /\ pc[p] = "u_done"

\* Total size of the first n candidates.
RECURSIVE SumSizes(_, _)
SumSizes(folders, n) ==
  IF n = 0 THEN 0 ELSE SumSizes(folders, n - 1) + folders[n].size

\* C7: select_folders_for_upload returns a prefix of the candidates, in
\* their order, whose total size is at most the budget; and either every
\* candidate is selected or the first unselected one would take the total
\* over the budget.
C7_SelectsFittingPrefix ==
  sel.called =>
    LET n == Len(sel.selected) IN
    /\ n <= Len(sel.folders)
    /\ \A i \in 1..n : sel.selected[i] = sel.folders[i].path
    /\ SumSizes(sel.folders, n) <= sel.max_size
    /\ \/ n = Len(sel.folders)
       \/ SumSizes(sel.folders, n) + sel.folders[n + 1].size > sel.max_size

\* The selection stops at a candidate that does not fit although a later,
\* smaller one would.
C7_Witness ==
  /\ sel.called
  /\ Len(sel.selected) >= 1
  /\ \E j \in (Len(sel.selected) + 2)..Len(sel.folders) :
       SumSizes(sel.folders, Len(sel.selected)) + sel.folders[j].size <= sel.max_size

\* C8: a folder that is a ledger key when an upload run scans is not among
\* the folders that scan returns, and the run attempts no copy of it.
C8_LedgerKeysNotScanned ==
  \A p \in Uploaders :
    /\ \A i \in 1..Len(up[p].folders) :
         up[p].folders[i].path \notin up[p].ignored_folders
    /\ \A i \in 1..Len(up[p].selected_folders) :
         up[p].selected_folders[i] \notin up[p].ignored_folders
    /\ \A i \in 1..Len(up[p].attempts) :
         up[p].attempts[i].folder \notin up[p].ignored_folders

\* A later run scanned while the ledger held a folder an earlier run had
\* recorded, the folder still being there locally, and went on to copy.
C8_Witness ==
  \E p, q \in Uploaders :
    /\ p # q
    /\ up[q].recorded \cap up[p].ignored_folders \cap local_fs # {}
    /\ up[p].attempts # <<>>

\* C9: a sweep that finds the lock held keeps waiting and neither fails nor
\* touches the ledger before it holds the lock; with every holder releasing
\* the lock in the end, a waiting sweep comes to hold it; and a sweep that
\* ended, normally or by an exception, no longer holds it.
C9_SweepWaitsForLock ==
  /\ [](\A p \in Sweepers : SweepInProgress(p) => lock = p)
  /\ [](\A p \in Sweepers :
          (pc[p] = "s_acquire" /\ lock # p) =>
             sw[p].items = EmptyDict /\ lastWriter # p)
  /\ [][\A p \in Sweepers :
          pc[p] = "s_acquire" => (pc'[p] = "s_acquire" \/ lock' = p)]_vars
  /\ \A p \in Sweepers : (pc[p] = "s_acquire") ~> (lock = p)
  /\ [](\A p \in Sweepers : pc[p] \in {"s_done", "s_error"} => lock # p)

\* A sweep that had to wait for the lock ended by an exception.
C9_Witness ==
  \E p \in Sweepers : sw[p].waited /\ pc[p] = "s_error" /\ lastWriter = p

\* C10: an upload run that stopped because every drive failed ends with a
\* non-zero exit status, and a run that went through its selection ends
\* with exit status 0.
C10_ExitStatusTellsAbort ==
  \A p \in Uploaders :
    pc[p] = "u_done" => (up[p].stop_all <=> exit_status[p] # 0)

\* C11: a selected folder that no mapping rule matches is never passed over
\* in silence: when the for loop of an upload run has gone past such a
\* folder, the run either made a copy attempt for it or ended in an error.
C11_UnmatchedSurfaced ==
  \A p \in Uploaders :
    \A k \in 1..Len(up[p].selected_folders) :
      (k < up[p].i /\ MatchRule(up[p].selected_folders[k]) = 0) =>
         \/ pc[p] = "u_error"
         \/ \E n \in 1..Len(up[p].attempts) :
              up[p].attempts[n].folder = up[p].selected_folders[k]

\* The folders an upload run copied with success.
Succeeded(u) ==
  {u.attempts[n].folder : n \in {m \in 1..Len(u.attempts) : u.attempts[m].ok}}

\* The last copy attempt of the run failed, on the last drive of the list.
FailedOnLastDrive(u) ==
  /\ u.attempts # <<>>
  /\ ~u.attempts[Len(u.attempts)].ok
  /\ u.attempts[Len(u.attempts)].drive = Len(rclone_drives) - 1

\* C12: when the copy of a folder has failed on the last drive of the list,
\* the upload run has stopped for good: the failing folder is the one the
\* loop stands at and has no entry, neither in the run's dictionary nor in
\* the persisted ledger; no folder after it was attempted; and what the run
\* saved last is its dictionary as of its last successful folder (it saved
\* nothing at all when no folder succeeded).
C12_AbortOnExhaustion ==
  \A p \in Uploaders :
    LET u == up[p] IN
    FailedOnLastDrive(u) =>
      LET failing == u.attempts[Len(u.attempts)].folder IN
      /\ u.stop_all
      /\ pc[p] = "u_done"
      /\ failing = u.selected_folders[u.i]
      /\ failing \notin u.recorded
      /\ failing \notin DOMAIN u.wait_cleanup_folders
      /\ failing \notin DOMAIN ledger
      /\ \A k \in (u.i + 1)..Len(u.selected_folders) :
           \A n \in 1..Len(u.attempts) :
             u.attempts[n].folder # u.selected_folders[k]
      /\ u.recorded = Succeeded(u)
      /\ (u.recorded = {} => lastWriter # p)
      /\ (lastWriter = p => ledger = u.wait_cleanup_folders)

\* A run recorded one folder and saved it, then ran out of drives on the
\* next folder of its selection.
C12_Witness ==
  \E p \in Uploaders :
    /\ FailedOnLastDrive(up[p])
    /\ up[p].recorded # {}
    /\ up[p].i < Len(up[p].selected_folders) + 1
    /\ lastWriter = p

\* C13: the drive index is carried from folder to folder and no failed drive
\* is tried again: the first copy attempt of a run uses drive 0; the attempt
\* after a successful one is for another folder on the same drive; the
\* attempt after a failed one is for the same folder on the next drive; and
\* no (folder, drive) pair is attempted twice.
C13_DriveCarriedOver ==
  \A p \in Uploaders :
    LET a == up[p].attempts IN
    /\ (a # <<>> => a[1].drive = 0)
    /\ \A n \in 1..(Len(a) - 1) :
         IF a[n].ok
         THEN a[n + 1].folder # a[n].folder /\ a[n + 1].drive = a[n].drive
         ELSE a[n + 1].folder = a[n].folder /\ a[n + 1].drive = a[n].drive + 1
    /\ \A m, n \in 1..Len(a) :
         (a[m].folder = a[n].folder /\ a[m].drive = a[n].drive) => m = n
    /\ (pc[p] = "copy" =>
          up[p].current_drive_index =
             IF a = <<>> THEN 0
             ELSE IF a[Len(a)].ok THEN a[Len(a)].drive
             ELSE a[Len(a)].drive + 1)

\* The first folder failed on the first drive and succeeded on the second;
\* the next folder was copied to the second drive at its first attempt.
C13_Witness ==
  \E p \in Uploaders :
    LET a == up[p].attempts IN
    /\ Len(a) = 3
    /\ ~a[1].ok /\ a[1].drive = 0
    /\ a[2].ok /\ a[2].drive = 1 /\ a[2].folder = a[1].folder
    /\ a[3].ok /\ a[3].drive = 1 /\ a[3].folder # a[2].folder
    /\ up[p].recorded = {a[2].folder, a[3].folder}

\* C14: in an upload run the persisted ledger gets an entry for a selected
\* folder only by the run's save that follows a successful copy of that
\* folder, and that save is done before the next copy attempt: a folder is
\* recorded only if a copy of it succeeded; a selected folder that is a
\* ledger key has been recorded; every successful copy but the latest has
\* been recorded, and the latest too once the run stands at the next copy;
\* and the step that records a folder leaves it in the persisted ledger and
\* makes no copy attempt.
C14_SavedBeforeNextCopy ==
  /\ [](\A p \in Uploaders :
          LET u == up[p]
              a == up[p].attempts
          IN /\ u.recorded \subseteq Succeeded(u)
             /\ \A k \in 1..Len(u.selected_folders) :
                  u.selected_folders[k] \in DOMAIN ledger =>
                     u.selected_folders[k] \in u.recorded
             /\ \A n \in 1..(Len(a) - 1) :
                  a[n].ok => a[n].folder \in u.recorded
             /\ (pc[p] = "copy" => Succeeded(u) \subseteq u.recorded))
  /\ [][\A p \in Uploaders :
          \A f \in up'[p].recorded \ up[p].recorded :
            /\ f \in DOMAIN ledger'
            /\ ledger' = up[p].wait_cleanup_folders
            /\ lastWriter' = p
            /\ up'[p].attempts = up[p].attempts
            /\ up[p].attempts[Len(up[p].attempts)].folder = f
            /\ up[p].attempts[Len(up[p].attempts)].ok]_vars

\* Two folders were copied and recorded one after the other, and the
\* persisted ledger holds both.
C14_Witness ==
  \E p \in Uploaders :
    /\ Cardinality(up[p].recorded) = 2
    /\ Len(up[p].attempts) >= 3
    /\ up[p].recorded \subseteq DOMAIN ledger
    /\ lastWriter = p

\* C15: no save changes the timestamp of a path the persisted ledger holds:
\* from one persisted ledger to the next, a key that stays keeps its
\* timestamp.
C15_NeverUpdatedInPlace ==
  [][\A f \in DOMAIN ledger \cap DOMAIN ledger' : ledger'[f] = ledger[f]]_vars

\* The entries a sweep found past the grace period that no mapping rule
\* matches.
Unmatched(s) == PastGrace(s) \ Matched(PastGrace(s))

\* C16: an entry past the grace period whose path no mapping rule matches is
\* never checked and never deleted by the sweep, the folder stays on disk,
\* and from the sweep's read to its end the persisted ledger holds the entry
\* with its timestamp unchanged.
C16_UnmatchedUntouched ==
  \A p \in Sweepers :
    \A f \in Unmatched(sw[p]) :
      /\ f \notin sw[p].verified_ok \cup sw[p].verified_bad
      /\ f \notin sw[p].deleted
      /\ f \in local_fs
      /\ f \in DOMAIN sw[p].uploaded_folders
      /\ (SweepInProgress(p) =>
            f \in DOMAIN ledger /\ ledger[f] = sw[p].items[f])

\* A sweep retired an expired entry and came to its end with an expired
\* entry no rule matches still in the ledger.
C16_Witness ==
  \E p \in Sweepers :
    /\ pc[p] = "s_finally"
    /\ Unmatched(sw[p]) # {}
    /\ sw[p].verified_ok # {}
    /\ lastWriter = p

\* The folders a sweep has run its check on.
Resolved(s) == s.verified_ok \cup s.verified_bad

\* C17: a sweep saves the ledger after every entry it resolves: while a
\* sweep runs, and in the state a crash of the sweep leaves, at most one
\* folder the sweep has checked is still a key of the persisted ledger, and
\* that one is the entry the sweep was working on.
C17_CrashLosesOneEntry ==
  /\ [](\A p \in Sweepers :
          SweepInProgress(p) =>
            /\ Cardinality(Resolved(sw[p]) \cap DOMAIN ledger) <= 1
            /\ Resolved(sw[p]) \cap DOMAIN ledger \subseteq {sw[p].folder})
  /\ [][\A p \in Sweepers :
          (pc[p] # "crashed" /\ pc'[p] = "crashed") =>
            /\ Cardinality(Resolved(sw'[p]) \cap DOMAIN ledger') <= 1
            /\ Resolved(sw'[p]) \cap DOMAIN ledger' \subseteq {sw'[p].folder}
            /\ sw'[p].deleted \subseteq sw'[p].verified_ok]_vars

\* A sweep retired one entry, checked and deleted a second folder, and was
\* killed before it saved: the second entry is still in the ledger.
C17_Witness ==
  \E p \in Sweepers :
    /\ pc[p] = "crashed"
    /\ lastWriter = p
    /\ ~corrupt
    /\ Cardinality(Resolved(sw[p])) >= 2
    /\ sw[p].folder \in sw[p].deleted
    /\ Resolved(sw[p]) \cap DOMAIN ledger = {sw[p].folder}

\* now - uploadedAt, in days, of an entry at the time the sweep read the
\* ledger.
Age(s, f) == (s.threshold_time + cleanup_offset_days) - fromisoformat(s.items[f])

\* C18 as stated: an entry (that a mapping rule matches) is checked by the
\* sweep exactly when its age is at least the grace period: one of a smaller
\* age is never checked, and when a sweep that ran to completion ends, every
\* one of that age or more has been checked and is out of the ledger.
C18_EligibleFromGrace ==
  \A p \in Sweepers :
    \A f \in Matched(DOMAIN sw[p].items) :
      /\ (Age(sw[p], f) < cleanup_offset_days => f \notin Resolved(sw[p]))
      /\ ((pc[p] = "s_finally" /\ Age(sw[p], f) >= cleanup_offset_days) =>
            f \in Resolved(sw[p]) /\ f \notin DOMAIN ledger)

\* C18 as amended: an entry (that a mapping rule matches) is checked by the
\* sweep exactly when its age is more than the grace period: one whose age
\* is the grace period or less is never checked and stays in the ledger
\* while the sweep runs, and when a sweep that ran to completion ends, every
\* older one has been checked and is out of the ledger.
C18_EligiblePastGrace ==
  \A p \in Sweepers :
    \A f \in Matched(DOMAIN sw[p].items) :
      /\ (Age(sw[p], f) <= cleanup_offset_days =>
            /\ f \notin Resolved(sw[p])
            /\ (SweepInProgress(p) =>
                  f \in DOMAIN ledger /\ ledger[f] = sw[p].items[f]))
      /\ ((pc[p] = "s_finally" /\ Age(sw[p], f) > cleanup_offset_days) =>
            f \in Resolved(sw[p]) /\ f \notin DOMAIN ledger)

\* A sweep came to its end having retired an older entry and left one
\* whose age was the grace period to the day.
C18_Witness ==
  \E p \in Sweepers :
    /\ pc[p] = "s_finally"
    /\ \E f \in Matched(DOMAIN sw[p].items) :
         Age(sw[p], f) = cleanup_offset_days /\ f \in DOMAIN ledger
    /\ \E g \in Matched(DOMAIN sw[p].items) :
         Age(sw[p], g) = cleanup_offset_days + 1 /\ g \notin DOMAIN ledger

\* C19: a folder an upload run has recorded stays a key of the persisted
\* ledger through every save of another upload run: it leaves the ledger
\* only by the save of a sweep.
C19_RecordedNotLost ==
  [][\A p \in Uploaders :
       \A f \in up[p].recorded :
         (f \in DOMAIN ledger /\ f \notin DOMAIN ledger') =>
            lastWriter' \in Sweepers]_vars

\* The entries a sweep has removed from the ledger.
Retired(s) == DOMAIN s.items \ DOMAIN s.uploaded_folders

\* C20: an entry a sweep has retired comes back as a ledger key only by the
\* save that follows a successful copy of that folder: the step that brings
\* it back is the write of an upload run for that very folder.
C20_RetiredNotRestored ==
  [][\A s \in Sweepers :
       \A f \in Retired(sw[s]) :
         (f \notin DOMAIN ledger /\ f \in DOMAIN ledger') =>
            \E p \in Uploaders :
              /\ pc[p] = "write"
              /\ lastWriter' = p
              /\ up[p].selected_folders[up[p].i] = f]_vars

====
